---- MODULE Spec2Model ----
\* A model of tashrouter's ZIP responding service
\* (src/tashrouter/service/zip/responding.py): the worker thread with its
\* queue, start/stop events and dispatch loop, and the request handlers
\* computed byte for byte on small datagrams.
EXTENDS Integers, Sequences, FiniteSets, TLC

\* ---------------------------------------------------------------- bounds

\* Datagram.MAX_DATA_LENGTH (586 in the router's datagram module, which is
\* not part of the files modelled here), scaled down so that zone lists
\* overflow a datagram with a handful of short zone names.
MAX_DATA_LENGTH == 14

\* Longest zone list of one network in the zone information table.
MaxZones == 3

\* Number of inbound() calls in one behaviour of the service.
MaxInbound == 2

\* Largest start index a zone list request carries.
MaxStartIndex == 4

\* Most networks a query lists.
MaxQueryNets == 2

\* ------------------------------------------------- protocol constants
\* Class attributes of ZipService (tashrouter/service/zip/__init__.py).

ZIP_SAS == 6
ZIP_DDP_TYPE == 6
ZIP_FUNC_QUERY == 1
ZIP_FUNC_REPLY == 2
ZIP_FUNC_GETNETINFO_REQUEST == 5
ZIP_FUNC_GETNETINFO_REPLY == 6
ZIP_FUNC_EXT_REPLY == 8
ZIP_ATP_FUNC_GETMYZONE == 7
ZIP_ATP_FUNC_GETZONELIST == 8
ZIP_ATP_FUNC_GETLOCALZONES == 9
ZIP_GETNETINFO_ZONE_INVALID == 128
ZIP_GETNETINFO_USE_BROADCAST == 64
ZIP_GETNETINFO_ONLY_ONE_ZONE == 32
ATP_DDP_TYPE == 3
ATP_FUNC_TREQ == 64
ATP_FUNC_TRESP == 128
ATP_EOM == 16

\* ------------------------------------------------------- byte strings
\* A bytes object is a sequence of numbers in 0..255.

RECURSIVE Join(_)
\* b''.join(items)
Join(items) ==
  IF items = <<>> THEN <<>> ELSE Head(items) \o Join(Tail(items))

\* struct.pack('>H', n)
PackH(n) == << (n \div 256) % 256, n % 256 >>

\* struct.unpack('>H', b)[0]
UnpackH(b) == b[1] * 256 + b[2]

\* Python values that are either an int or the 1-tuple struct.unpack returns.
IntValue(n) == [t |-> "int", v |-> n]
TupleValue(n) == [t |-> "tuple1", v |-> n]

\* struct.unpack('>H', b): always a tuple, here of one element.
struct_unpack_H(b) == TupleValue(UnpackH(b))

\* ucase(): the zone name fold of the zone information table (ASCII part).
ucase(name) ==
  [i \in 1..Len(name) |-> IF name[i] >= 97 /\ name[i] <= 122 THEN name[i] - 32 ELSE name[i]]

\* ------------------------------------------- zone information table
\* The table maps each network to its zone names, in a stable order.

NetworkSeq == <<10, 20>>
Networks == {NetworkSeq[i] : i \in 1..Len(NetworkSeq)}

ZoneNames == { <<>>, <<65>>, <<66, 99>>, <<68, 69, 70>> }

IsInjective(s) == \A i, j \in 1..Len(s) : s[i] = s[j] => i = j

ZoneSeqs == UNION { {s \in [1..k -> ZoneNames] : IsInjective(s)} : k \in 0..MaxZones }

Tables == [Networks -> ZoneSeqs]

RECURSIVE Dedup(_, _)
Dedup(s, seen) ==
  IF s = <<>> THEN <<>>
  ELSE IF Head(s) \in seen THEN Dedup(Tail(s), seen)
  ELSE <<Head(s)>> \o Dedup(Tail(s), seen \cup {Head(s)})

RECURSIVE ZonesOfRange(_, _, _, _)
ZonesOfRange(zit, k, network_min, network_max) ==
  IF k > Len(NetworkSeq) THEN <<>>
  ELSE (IF network_min <= NetworkSeq[k] /\ NetworkSeq[k] <= network_max
        THEN zit[NetworkSeq[k]] ELSE <<>>)
       \o ZonesOfRange(zit, k + 1, network_min, network_max)

\* zit.zones()
zones(zit) == Dedup(ZonesOfRange(zit, 1, 0, 65535), {})

\* zit.zones_in_network_range(network_min, network_max)
zones_in_network_range(zit, network_min, network_max) ==
  Dedup(ZonesOfRange(zit, 1, network_min, network_max), {})

\* What the table does when handed a tuple where a network number is due.
TupleLookups == {"miss", "match", "raise"}

\* zit.zones_in_network(network): [zones, raised]. Called with an int it
\* yields the network's zones. Called with a tuple it is outside its
\* interface: the lookup finds nothing, or finds the network the tuple
\* holds, or fails comparing a tuple with a number.
zones_in_network(zit, network, lookup) ==
  IF network.t = "int" \/ lookup = "match"
  THEN [zones |-> IF network.v \in Networks THEN zit[network.v] ELSE <<>>, raised |-> ""]
  ELSE IF lookup = "miss" THEN [zones |-> <<>>, raised |-> ""]
  ELSE [zones |-> <<>>, raised |-> "TypeError"]

\* ---------------------------------------------------------- datagrams

\* Datagram(hop_count=0, ...): dn, sn the networks, dd, sd the nodes, ds, ss
\* the sockets of destination and source.
Datagram(dn, sn, dd, sd, ds, ss, ddp_type, data) ==
  [hop_count |-> 0,
   destination_network |-> dn,
   source_network |-> sn,
   destination_node |-> dd,
   source_node |-> sd,
   destination_socket |-> ds,
   source_socket |-> ss,
   ddp_type |-> ddp_type,
   data |-> data]

\* The reply the handlers hand to router.route(): addressed back to the
\* querying socket, source network and node zero.
RoutedReply(datagram, ddp_type, data) ==
  [via |-> "route",
   datagram |-> Datagram(datagram.source_network, 0, datagram.source_node, 0,
                         datagram.source_socket, datagram.destination_socket,
                         ddp_type, data)]

\* What a handler did: the datagrams it emitted, in order, and the
\* exception it raised ("" when it returned).
Returned(sent) == [sent |-> sent, raised |-> ""]
Raised(sent, exc) == [sent |-> sent, raised |-> exc]

\* ------------------------------------------------------ _query (ZIP)

RECURSIVE ZoneItems(_, _)
\* The items one network contributes: (network, struct.pack('>HB', network,
\* len(zone_name)) + zone_name) for each zone name.
ZoneItems(network, zone_names) ==
  IF zone_names = <<>> THEN <<>>
  ELSE << [network |-> network,
           list_item |-> PackH(network.v) \o <<Len(Head(zone_names))>> \o Head(zone_names)] >>
       \o ZoneItems(network, Tail(zone_names))

RECURSIVE _networks_zone_list(_, _, _)
\* list(cls._networks_zone_list(zit, networks)): [items, raised]. struct.pack
\* raises struct.error when the network it is to pack as '>H' is no int.
_networks_zone_list(zit, networks, lookup) ==
  IF networks = <<>> THEN [items |-> <<>>, raised |-> ""]
  ELSE LET network == Head(networks)
           found == zones_in_network(zit, network, lookup)
       IN IF found.raised # "" THEN [items |-> <<>>, raised |-> found.raised]
          ELSE IF found.zones # <<>> /\ network.t # "int"
          THEN [items |-> <<>>, raised |-> "struct.error"]
          ELSE LET rest == _networks_zone_list(zit, Tail(networks), lookup)
               IN [items |-> ZoneItems(network, found.zones) \o rest.items,
                   raised |-> rest.raised]

RECURSIVE SumLen(_)
\* sum(len(list_item) for network, list_item in networks_zone_list)
SumLen(items) ==
  IF items = <<>> THEN 0 ELSE Len(Head(items).list_item) + SumLen(Tail(items))

ListItems(items) == [i \in 1..Len(items) |-> items[i].list_item]

RECURSIVE NetworkOrder(_, _)
\* The keys of zone_list_by_network, in insertion order.
NetworkOrder(items, seen) ==
  IF items = <<>> THEN <<>>
  ELSE IF Head(items).network \in seen THEN NetworkOrder(Tail(items), seen)
  ELSE <<Head(items).network>> \o NetworkOrder(Tail(items), seen \cup {Head(items).network})

\* zone_list_by_network[network]
ZoneListOf(items, network) ==
  ListItems(SelectSeq(items, LAMBDA it : it.network = network))

RECURSIVE PackLoop(_, _, _, _, _)
\* The loop over chain(zone_list, (None,)) for one network; k is the place
\* in the chain, Len(zone_list) + 1 the trailing None. A datagram is routed
\* when the item is None or would not fit; then the item is appended and
\* its length added, whatever it is: len(None) raises TypeError.
PackLoop(datagram, zone_list, k, datagram_data, datagram_data_length) ==
  LET isNone == k = Len(zone_list) + 1
      flush == isNone \/ datagram_data_length + Len(zone_list[k]) > MAX_DATA_LENGTH - 2
      out == IF flush
             THEN << RoutedReply(datagram, ZIP_DDP_TYPE,
                                 <<ZIP_FUNC_EXT_REPLY, Len(zone_list)>> \o Join(datagram_data)) >>
             ELSE <<>>
  IN IF isNone THEN Raised(out, "TypeError")
     ELSE LET rest == PackLoop(datagram, zone_list, k + 1,
                               Append(datagram_data, zone_list[k]),
                               datagram_data_length + Len(zone_list[k]))
          IN [sent |-> out \o rest.sent, raised |-> rest.raised]

RECURSIVE FragmentLoop(_, _, _)
\* for network, zone_list in zone_list_by_network.items(): ...
FragmentLoop(datagram, items, order) ==
  IF order = <<>> THEN Returned(<<>>)
  ELSE LET one == PackLoop(datagram, ZoneListOf(items, Head(order)), 1, <<>>, 0)
       IN IF one.raised # "" THEN one
          ELSE LET rest == FragmentLoop(datagram, items, Tail(order))
               IN [sent |-> one.sent \o rest.sent, raised |-> rest.raised]

\* The else branch of _query: the zone list does not fit one datagram.
Fragment(datagram, items) == FragmentLoop(datagram, items, NetworkOrder(items, {}))

\* The if branch of _query: one reply carrying len(networks) and every item.
QueryReply(datagram, networks, items) ==
  RoutedReply(datagram, ZIP_DDP_TYPE,
              <<ZIP_FUNC_REPLY, Len(networks)>> \o Join(ListItems(items)))

\* networks_zone_list_byte_length + 2 <= Datagram.MAX_DATA_LENGTH
FitsOneDatagram(items) == SumLen(items) + 2 <= MAX_DATA_LENGTH

\* The reply or replies to a query, once its zone list is built.
QueryAnswer(datagram, networks, items) ==
  IF FitsOneDatagram(items)
  THEN Returned(<< QueryReply(datagram, networks, items) >>)
  ELSE Fragment(datagram, items)

\* The networks a query lists, as the list comprehension builds them.
QueryNetworks(data) ==
  [i \in 1..data[2] |-> struct_unpack_H(SubSeq(data, 2 * i + 1, 2 * i + 2))]

_query(zit, datagram, lookup) ==
  LET data == datagram.data
  IN IF Len(data) < 4 THEN Returned(<<>>)
     ELSE IF Len(data) # data[2] * 2 + 2 THEN Returned(<<>>)
     ELSE LET networks == QueryNetworks(data)
              nzl == _networks_zone_list(zit, networks, lookup)
          IN IF nzl.raised # "" THEN Raised(<<>>, nzl.raised)
             ELSE QueryAnswer(datagram, networks, nzl.items)

\* ------------------------------------------------------------- ports
\* A port knows its network, its network range and its node; mcast tells
\* whether its link layer has zone multicast addresses (EtherTalk) or none
\* (LocalTalk).

Port(network, network_min, network_max, node, mcast) ==
  [network |-> network, network_min |-> network_min, network_max |-> network_max,
   node |-> node, mcast |-> mcast]

RECURSIVE SumBytes(_)
SumBytes(b) == IF b = <<>> THEN 0 ELSE Head(b) + SumBytes(Tail(b))

\* rx_port.multicast_address(zone_name): empty on a port without multicast,
\* else an address that depends on the folded zone name alone.
multicast_address(rx_port, zone_name) ==
  IF rx_port.mcast THEN << 9, SumBytes(ucase(zone_name)) % 253 >> ELSE <<>>

\* The reply _get_net_info hands to rx_port.send().
SentReply(datagram, rx_port, data) ==
  [via |-> "send",
   datagram |-> Datagram(datagram.source_network, rx_port.network, datagram.source_node,
                         rx_port.node, datagram.source_socket, ZIP_SAS, ZIP_DDP_TYPE, data)]

\* ----------------------------------------------- _get_net_info (ZIP)

\* The state of the zone scan before its first zone: both flags set, no
\* default zone (None), no multicast address.
ScanStart ==
  [zone_invalid |-> TRUE, only_one_zone |-> TRUE, default_zone_name |-> <<>>,
   number_of_zones |-> 0, multicast_address |-> <<>>]

RECURSIVE ZoneScanBreakAtSecond(_, _, _, _, _)
\* The scan that breaks at the second zone whether or not the given name
\* was found.
ZoneScanBreakAtSecond(rx_port, zone_seq, k, given_zone_name_ucase, st) ==
  IF k > Len(zone_seq) THEN st
  ELSE LET zone_name == zone_seq[k]
           first == st.default_zone_name = <<>>
           match == ucase(zone_name) = given_zone_name_ucase
           number == st.number_of_zones + 1
           next == [zone_invalid |-> st.zone_invalid /\ ~match,
                    only_one_zone |-> st.only_one_zone /\ ~(number > 1),
                    default_zone_name |-> IF first THEN <<zone_name>> ELSE st.default_zone_name,
                    number_of_zones |-> number,
                    multicast_address |->
                      IF match \/ first THEN multicast_address(rx_port, zone_name)
                      ELSE st.multicast_address]
       IN IF number > 1 THEN next
          ELSE ZoneScanBreakAtSecond(rx_port, zone_seq, k + 1, given_zone_name_ucase, next)

RECURSIVE ZoneScanNoFold(_, _, _, _, _)
\* The scan with the zone names of the table compared as they are stored.
ZoneScanNoFold(rx_port, zone_seq, k, given_zone_name_ucase, st) ==
  IF k > Len(zone_seq) THEN st
  ELSE LET zone_name == zone_seq[k]
           first == st.default_zone_name = <<>>
           match == zone_name = given_zone_name_ucase
           number == st.number_of_zones + 1
           next == [zone_invalid |-> st.zone_invalid /\ ~match,
                    only_one_zone |-> st.only_one_zone /\ ~(number > 1),
                    default_zone_name |-> IF first THEN <<zone_name>> ELSE st.default_zone_name,
                    number_of_zones |-> number,
                    multicast_address |->
                      IF match \/ first THEN multicast_address(rx_port, zone_name)
                      ELSE st.multicast_address]
       IN IF number > 1 /\ ~next.zone_invalid THEN next
          ELSE ZoneScanNoFold(rx_port, zone_seq, k + 1, given_zone_name_ucase, next)

RECURSIVE ZoneScan(_, _, _, _, _)
\* The for loop over zones_in_network_range, with its break; the default
\* zone is <<>> for None and <<name>> once set.
ZoneScan(rx_port, zone_seq, k, given_zone_name_ucase, st) ==
  IF k > Len(zone_seq) THEN st
  ELSE LET zone_name == zone_seq[k]
           first == st.default_zone_name = <<>>
           match == ucase(zone_name) = given_zone_name_ucase
           number == st.number_of_zones + 1
           next == [zone_invalid |-> st.zone_invalid /\ ~match,
                    only_one_zone |-> st.only_one_zone /\ ~(number > 1),
                    default_zone_name |-> IF first THEN <<zone_name>> ELSE st.default_zone_name,
                    number_of_zones |-> number,
                    multicast_address |->
                      IF match \/ first THEN multicast_address(rx_port, zone_name)
                      ELSE st.multicast_address]
       IN IF number > 1 /\ ~next.zone_invalid THEN next
          ELSE ZoneScan(rx_port, zone_seq, k + 1, given_zone_name_ucase, next)

\* The flags byte of the reply.
NetInfoFlags(st) ==
  (IF st.zone_invalid THEN ZIP_GETNETINFO_ZONE_INVALID ELSE 0)
  + (IF st.only_one_zone THEN ZIP_GETNETINFO_ONLY_ONE_ZONE ELSE 0)
  + (IF st.multicast_address = <<>> THEN ZIP_GETNETINFO_USE_BROADCAST ELSE 0)

\* datagram.data[7:7 + datagram.data[6]]: a slice stops at the end of data.
GivenZoneName(data) ==
  SubSeq(data, 8, IF 7 + data[7] <= Len(data) THEN 7 + data[7] ELSE Len(data))

_get_net_info(zit, datagram, rx_port) ==
  LET data == datagram.data
  IN IF 0 \in {rx_port.network, rx_port.network_min, rx_port.network_max} THEN Returned(<<>>)
     ELSE IF Len(data) < 7 THEN Returned(<<>>)
     ELSE IF SubSeq(data, 2, 6) # <<0, 0, 0, 0, 0>> THEN Returned(<<>>)
     ELSE LET given_zone_name == GivenZoneName(data)
              st == ZoneScan(rx_port,
                             zones_in_network_range(zit, rx_port.network_min, rx_port.network_max),
                             1, ucase(given_zone_name), ScanStart)
          IN IF st.zone_invalid /\ st.default_zone_name = <<>>
             THEN Raised(<<>>, "TypeError")
             ELSE Returned(<< SentReply(datagram, rx_port,
                    <<ZIP_FUNC_GETNETINFO_REPLY, NetInfoFlags(st)>>
                    \o PackH(rx_port.network_min) \o PackH(rx_port.network_max)
                    \o <<Len(given_zone_name)>> \o given_zone_name
                    \o <<Len(st.multicast_address)>> \o st.multicast_address
                    \o (IF st.zone_invalid
                        THEN <<Len(st.default_zone_name[1])>> \o st.default_zone_name[1]
                        ELSE <<>>)) >>)

\* ------------------------------------------------ _get_my_zone (ATP)

\* The header of an ATP transaction response: control, bitmap, tid and the
\* four user bytes (last flag, zero, count).
AtpResponse(tid, last_flag, count) ==
  <<ATP_FUNC_TRESP + ATP_EOM, 0>> \o PackH(tid) \o <<last_flag, 0>> \o PackH(count)

_get_my_zone(zit, datagram) ==
  LET tid == UnpackH(SubSeq(datagram.data, 3, 4))
      start_index == UnpackH(SubSeq(datagram.data, 7, 8))
      found == zones_in_network(zit, IntValue(datagram.source_network), "miss").zones
  IN IF start_index # 0 THEN Returned(<<>>)
     ELSE IF found = <<>> \/ Head(found) = <<>> THEN Returned(<<>>)
     ELSE Returned(<< RoutedReply(datagram, ATP_DDP_TYPE,
                        AtpResponse(tid, 0, 1) \o <<Len(Head(found))>> \o Head(found)) >>)

\* ----------------------------------------------- _get_zone_list (ATP)

\* The truth value of what next(zone_iter, None) returned at place k of
\* the zone sequence: None past the end is false, and so is an empty name.
NextIsTruthy(zone_seq, k) == k <= Len(zone_seq) /\ zone_seq[k] # <<>>

RECURSIVE ZoneListLoop(_, _, _, _, _)
\* The while loop: [zone_list, num_zones, last_flag]. It ends by break
\* (last_flag stays 0) or because the next value is false (else: 1).
ZoneListLoop(zone_seq, k, zone_list, num_zones, data_length) ==
  IF ~NextIsTruthy(zone_seq, k)
  THEN [zone_list |-> zone_list, num_zones |-> num_zones, last_flag |-> 1]
  ELSE IF data_length + 1 + Len(zone_seq[k]) > MAX_DATA_LENGTH
  THEN [zone_list |-> zone_list, num_zones |-> num_zones, last_flag |-> 0]
  ELSE ZoneListLoop(zone_seq, k + 1, zone_list \o <<Len(zone_seq[k])>> \o zone_seq[k],
                    num_zones + 1, data_length + 1 + Len(zone_seq[k]))

\* The place in the zone sequence of the first next() of the while loop,
\* after range(start_index - 1) skipped its entries.
FirstPlace(start_index) == IF start_index >= 1 THEN start_index ELSE 1

\* rx_port is <<>> for None and <<port>> for a port.
ZoneSource(zit, rx_port) ==
  IF rx_port # <<>>
  THEN zones_in_network_range(zit, rx_port[1].network_min, rx_port[1].network_max)
  ELSE zones(zit)

_get_zone_list(zit, datagram, rx_port) ==
  LET tid == UnpackH(SubSeq(datagram.data, 3, 4))
      start_index == UnpackH(SubSeq(datagram.data, 7, 8))
      page == ZoneListLoop(ZoneSource(zit, rx_port), FirstPlace(start_index), <<>>, 0, 8)
  IN Returned(<< RoutedReply(datagram, ATP_DDP_TYPE,
                   AtpResponse(tid, page.last_flag, page.num_zones) \o page.zone_list) >>)

\* ------------------------------------------------ dispatch in _run

\* The test of the ATP header: a transaction request for one packet.
AtpHeaderAnyBitmap(data) == data[1] = ATP_FUNC_TREQ /\ data[6] = 0

\* `control != ATP_FUNC_TREQ or bitmap != 1 or zero != 0: continue`, negated
AtpHeaderOk(data) == data[1] = ATP_FUNC_TREQ /\ data[2] = 1 /\ data[6] = 0

\* The handler the loop body calls for a datagram; "continue" where the
\* body says continue and "none" where no branch is taken.
Handler(datagram) ==
  LET data == datagram.data
  IN IF datagram.ddp_type = ZIP_DDP_TYPE
     THEN IF data = <<>> THEN "continue"
          ELSE IF data[1] = ZIP_FUNC_QUERY THEN "_query"
          ELSE IF data[1] = ZIP_FUNC_GETNETINFO_REQUEST THEN "_get_net_info"
          ELSE "none"
     ELSE IF datagram.ddp_type = ATP_DDP_TYPE
     THEN IF Len(data) # 8 THEN "continue"
          ELSE IF ~AtpHeaderOk(data) THEN "continue"
          ELSE IF data[5] = ZIP_ATP_FUNC_GETMYZONE THEN "_get_my_zone"
          ELSE IF data[5] = ZIP_ATP_FUNC_GETZONELIST THEN "_get_zone_list"
          ELSE IF data[5] = ZIP_ATP_FUNC_GETLOCALZONES THEN "_get_local_zones"
          ELSE "none"
     ELSE "none"

\* What the loop body does with one (datagram, rx_port) item.
Dispatch(zit, datagram, rx_port, lookup) ==
  LET handler == Handler(datagram)
  IN IF handler = "_query" THEN _query(zit, datagram, lookup)
     ELSE IF handler = "_get_net_info" THEN _get_net_info(zit, datagram, rx_port)
     ELSE IF handler = "_get_my_zone" THEN _get_my_zone(zit, datagram)
     ELSE IF handler = "_get_zone_list" THEN _get_zone_list(zit, datagram, <<>>)
     ELSE IF handler = "_get_local_zones" THEN _get_zone_list(zit, datagram, <<rx_port>>)
     ELSE Returned(<<>>)

\* ------------------------------------------------------------ requests
\* The datagrams and ports the service is given.

\* A datagram from node 1, socket 253 of source_network to the ZIP socket.
Request(source_network, ddp_type, data) ==
  Datagram(0, source_network, 0, 1, ZIP_SAS, 253, ddp_type, data)

RECURSIVE PackNetworks(_)
PackNetworks(nets) ==
  IF nets = <<>> THEN <<>> ELSE PackH(Head(nets)) \o PackNetworks(Tail(nets))

\* ZIP query: func(1) count(1) {net(2)}*count
QueryData(nets) == <<ZIP_FUNC_QUERY, Len(nets)>> \o PackNetworks(nets)

\* ZIP get-net-info request: func(1) zero(5) given_len(1) given_name
GetNetInfoData(given) ==
  <<ZIP_FUNC_GETNETINFO_REQUEST, 0, 0, 0, 0, 0, Len(given)>> \o given

\* ATP request header: control(1) bitmap(1) tid(2) func(1) zero(1) start_index(2)
AtpRequestData(func, tid, start_index) ==
  <<ATP_FUNC_TREQ, 1>> \o PackH(tid) \o <<func, 0>> \o PackH(start_index)

Port10 == Port(10, 10, 10, 254, TRUE)
Port20 == Port(20, 20, 20, 253, FALSE)
PortRange == Port(10, 10, 20, 252, TRUE)
PortUnassigned == Port(0, 0, 0, 0, FALSE)

\* The (datagram, rx_port) pairs handed to inbound(): one for each branch
\* of the dispatch.
ServiceInputs ==
  { <<Request(10, ZIP_DDP_TYPE, QueryData(<<10>>)), Port10>>,
    <<Request(10, ZIP_DDP_TYPE, GetNetInfoData(<<65>>)), Port10>>,
    <<Request(10, ATP_DDP_TYPE, AtpRequestData(ZIP_ATP_FUNC_GETMYZONE, 7, 0)), Port10>>,
    <<Request(20, ATP_DDP_TYPE, AtpRequestData(ZIP_ATP_FUNC_GETZONELIST, 7, 1)), Port20>>,
    <<Request(10, ATP_DDP_TYPE, AtpRequestData(ZIP_ATP_FUNC_GETLOCALZONES, 7, 1)), Port10>>,
    <<Request(10, ATP_DDP_TYPE, <<ATP_FUNC_TREQ, 1, 0, 7, ZIP_ATP_FUNC_GETMYZONE, 0, 0>>), Port10>>,
    <<Request(10, ZIP_DDP_TYPE, <<>>), Port10>>,
    <<Request(10, 2, <<1, 2, 3>>), Port10>> }

\* The zone tables of the service runs: at most one zone in all.
ServiceTables == {t \in Tables : Len(t[10]) + Len(t[20]) <= 1}

\* The ports of the virtual network, each standing for its bound method
\* _recv_packet, and the threads that call into the network.
VPorts == {"pa", "pb", "pc"}
VThreads == {"t1", "t2"}

\* What the threads do when they are not inside a callback: one sends
\* packets, the other starts and stops ports.
SendingThreads == {"t1"}
PluggingThreads == {"t2"}

\* --------------------------------------------------------------- state

VARIABLES
  zit,            \* router.zone_information_table, unchanging during a run
  tuple_lookup,   \* what that table does with a tuple for a network number
  thread,         \* self.thread: "None" or "Thread"
  queue,          \* self.queue: the items put and not yet got
  started_event,  \* self.started_event is set
  stopped_event,  \* self.stopped_event is set
  wpc,            \* where the worker thread is in _run
  startPc,        \* where the caller of start() is
  stopPc,         \* where the caller of stop() is
  enqueued,       \* history: every item put on the queue, in order
  dispatched,     \* history: the ids of the items handed to the dispatch
  sent,           \* history: [id, out] for every datagram emitted
  h_case,         \* handler runs: the request a handler is applied to
  h_result        \* handler runs: what the handler did, <<>> before

\* The virtual LocalTalk network and the ports plugged into it.
VARIABLES
  _plugged,       \* VirtualLocalTalkNetwork._plugged: the receive callbacks
  _lock,          \* VirtualLocalTalkNetwork._lock: "free" or the thread holding it
  port_state,     \* where each port is between start() and stop()
  stack,          \* the calls in progress of each thread, outermost first
  sends,          \* history: every send_packet call, with its snapshot
  invoked         \* history: what each send_packet passed to each callback

netVars == <<_plugged, _lock, port_state, stack, sends, invoked>>

\* Repeated start() and stop() calls on one service instance.
VARIABLES
  workers,        \* the position in _run of every worker thread created
  calls           \* the start() and stop() calls made, with their positions

cycleVars == <<workers, calls>>

vars == <<zit, tuple_lookup, thread, queue, started_event, stopped_event, wpc, startPc, stopPc,
          enqueued, dispatched, sent, h_case, h_result, netVars, cycleVars>>

serviceVars == <<thread, queue, started_event, stopped_event, wpc, startPc, stopPc,
                 enqueued, dispatched, sent>>

handlerVars == <<h_case, h_result>>

\* A queue item: the stop sentinel, or a (datagram, rx_port) pair. id is
\* the place of the item among all items put, standing for its identity.
StopFlagItem(id) == [id |-> id, stop_flag |-> TRUE, datagram |-> <<>>, rx_port |-> <<>>]
WorkItem(id, datagram, rx_port) ==
  [id |-> id, stop_flag |-> FALSE, datagram |-> <<datagram>>, rx_port |-> <<rx_port>>]

NoCase == [kind |-> "none", datagram |-> <<>>, rx_port |-> <<>>]

\* VirtualLocalTalkNetwork.__init__, with every port stopped.
InitNetwork ==
  /\ _plugged = <<>>
  /\ _lock = "free"
  /\ port_state = [p \in VPorts |-> "stopped"]
  /\ stack = [t \in VThreads |-> <<>>]
  /\ sends = <<>>
  /\ invoked = <<>>

\* No start() or stop() call made yet.
InitCycles ==
  /\ workers = <<>>
  /\ calls = <<>>

\* __init__
InitService ==
  /\ thread = "None"
  /\ queue = <<>>
  /\ started_event = FALSE
  /\ stopped_event = FALSE
  /\ wpc = "unborn"
  /\ startPc = "idle"
  /\ stopPc = "idle"
  /\ enqueued = <<>>
  /\ dispatched = <<>>
  /\ sent = <<>>

Init ==
  /\ zit \in ServiceTables
  /\ tuple_lookup \in TupleLookups
  /\ InitService
  /\ InitNetwork
  /\ InitCycles
  /\ h_case = NoCase
  /\ h_result = <<>>

\* ------------------------------------------------------ start and stop

\* start(), to the wait: the thread is created and started.
StartCall ==
  /\ startPc = "idle"
  /\ thread' = "Thread"
  /\ wpc' = "start"
  /\ startPc' = "waiting"
  /\ UNCHANGED <<netVars, cycleVars, zit, tuple_lookup, queue, started_event, stopped_event, stopPc, enqueued, dispatched, sent>>
  /\ UNCHANGED handlerVars

\* A start() that does not wait for the worker.
StartedEventNoWait == TRUE

\* self.started_event.wait() returns once the event is set.
StartedEventWait == started_event

StartReturn ==
  /\ startPc = "waiting"
  /\ StartedEventWait
  /\ startPc' = "returned"
  /\ UNCHANGED <<netVars, cycleVars, zit, tuple_lookup, thread, queue, started_event, stopped_event, wpc, stopPc,
                 enqueued, dispatched, sent>>
  /\ UNCHANGED handlerVars

\* stop(), to the wait: the sentinel is put on the queue. The service is
\* stopped once, after start() returned.
StopCall ==
  /\ startPc = "returned"
  /\ stopPc = "idle"
  /\ queue' = Append(queue, StopFlagItem(Len(enqueued) + 1))
  /\ enqueued' = Append(enqueued, StopFlagItem(Len(enqueued) + 1))
  /\ stopPc' = "waiting"
  /\ UNCHANGED <<netVars, cycleVars, zit, tuple_lookup, thread, started_event, stopped_event, wpc, startPc, dispatched, sent>>
  /\ UNCHANGED handlerVars

\* self.stopped_event.wait() returns once the event is set.
StopReturn ==
  /\ stopPc = "waiting"
  /\ stopped_event
  /\ stopPc' = "returned"
  /\ UNCHANGED <<netVars, cycleVars, zit, tuple_lookup, thread, queue, started_event, stopped_event, wpc, startPc,
                 enqueued, dispatched, sent>>
  /\ UNCHANGED handlerVars

\* ------------------------------------------------------------- inbound

InboundCount == Cardinality({i \in 1..Len(enqueued) : ~enqueued[i].stop_flag})

\* inbound(datagram, rx_port), from any thread at any time.
Inbound ==
  /\ InboundCount < MaxInbound
  /\ \E input \in ServiceInputs :
       LET item == WorkItem(Len(enqueued) + 1, input[1], input[2])
       IN /\ queue' = Append(queue, item)
          /\ enqueued' = Append(enqueued, item)
  /\ UNCHANGED <<netVars, cycleVars, zit, tuple_lookup, thread, started_event, stopped_event, wpc, startPc, stopPc,
                 dispatched, sent>>
  /\ UNCHANGED handlerVars

\* ---------------------------------------------------------------- _run

\* self.started_event.set()
RunSetStarted ==
  /\ wpc = "start"
  /\ started_event' = TRUE
  /\ wpc' = "get"
  /\ UNCHANGED <<netVars, cycleVars, zit, tuple_lookup, thread, queue, stopped_event, startPc, stopPc, enqueued, dispatched, sent>>
  /\ UNCHANGED handlerVars

\* item is self.stop_flag
IsStopFlag(item) == item.stop_flag

\* A loop that goes on after the stop flag.
AfterStopFlagContinue == "get"

\* Where the worker goes when the item it got is the stop flag: break.
AfterStopFlag == "exit"

\* Where the worker goes after the loop body: back to queue.get(), or out
\* of _run with the exception the body raised, which ends the thread.
AfterDispatch(result) == IF result.raised # "" THEN "dead" ELSE "get"

TagSent(id, outs) == [i \in 1..Len(outs) |-> [id |-> id, out |-> outs[i]]]

\* One turn of the loop on a (datagram, rx_port) item: queue.get() and the
\* whole dispatch of the item.
RunItem ==
  /\ wpc = "get"
  /\ queue # <<>>
  /\ ~IsStopFlag(Head(queue))
  /\ LET item == Head(queue)
         result == Dispatch(zit, item.datagram[1], item.rx_port[1], tuple_lookup)
     IN /\ sent' = sent \o TagSent(item.id, result.sent)
        /\ wpc' = AfterDispatch(result)
  /\ queue' = Tail(queue)
  /\ dispatched' = Append(dispatched, Head(queue).id)
  /\ UNCHANGED <<netVars, cycleVars, zit, tuple_lookup, thread, started_event, stopped_event, startPc, stopPc, enqueued>>
  /\ UNCHANGED handlerVars

\* One turn of the loop on the stop flag: queue.get() and break.
RunBreak ==
  /\ wpc = "get"
  /\ queue # <<>>
  /\ IsStopFlag(Head(queue))
  /\ queue' = Tail(queue)
  /\ wpc' = AfterStopFlag
  /\ UNCHANGED <<netVars, cycleVars, zit, tuple_lookup, thread, started_event, stopped_event, startPc, stopPc,
                 enqueued, dispatched, sent>>
  /\ UNCHANGED handlerVars

\* self.stopped_event.set()
RunSetStopped ==
  /\ wpc = "exit"
  /\ stopped_event' = TRUE
  /\ wpc' = "done"
  /\ UNCHANGED <<netVars, cycleVars, zit, tuple_lookup, thread, queue, started_event, startPc, stopPc, enqueued, dispatched, sent>>
  /\ UNCHANGED handlerVars

Next ==
  \/ StartCall
  \/ StartReturn
  \/ StopCall
  \/ StopReturn
  \/ Inbound
  \/ RunSetStarted
  \/ RunItem
  \/ RunBreak
  \/ RunSetStopped

Spec == Init /\ [][Next]_vars

\* The service with its threads scheduled fairly: a thread that can take
\* its next step takes it. Callers of inbound() and stop() owe nothing.
FairSpec ==
  /\ Spec
  /\ WF_vars(RunSetStarted)
  /\ WF_vars(RunItem)
  /\ WF_vars(RunBreak)
  /\ WF_vars(RunSetStopped)
  /\ WF_vars(StartReturn)
  /\ WF_vars(StopReturn)

\* ------------------------------------------------- lifecycle properties

\* The place of the stop flag among the items put, 0 when stop() was not
\* called.
SentinelPlace ==
  IF \E k \in 1..Len(enqueued) : enqueued[k].stop_flag
  THEN CHOOSE k \in 1..Len(enqueued) : enqueued[k].stop_flag
  ELSE 0

\* The worker got the stop flag from the queue.
SentinelDequeued ==
  SentinelPlace # 0 /\ \A i \in 1..Len(queue) : ~queue[i].stop_flag

\* The ids of the (datagram, rx_port) items put ahead of the stop flag, or of
\* all of them when there is no stop flag, in the order they were put.
ItemsAhead ==
  LET ahead == SelectSeq(enqueued,
                 LAMBDA it : ~it.stop_flag /\ (SentinelPlace = 0 \/ it.id < SentinelPlace))
  IN [i \in 1..Len(ahead) |-> ahead[i].id]

IsPrefix(s, t) == Len(s) <= Len(t) /\ \A i \in 1..Len(s) : s[i] = t[i]

\* C1: no item that sits behind the stop flag in the queue is dispatched or
\* answered, and once the worker has got the stop flag it has left its loop.
C1_NothingBehindSentinel ==
  /\ SentinelPlace # 0 =>
       /\ \A j \in 1..Len(dispatched) : dispatched[j] < SentinelPlace
       /\ \A j \in 1..Len(sent) : sent[j].id < SentinelPlace
  /\ SentinelDequeued => wpc \in {"exit", "done"}

\* C1 witness: the worker is done, it dispatched an item put ahead of the
\* stop flag, and an item put behind the stop flag is still in the queue.
C1_Witness ==
  /\ wpc = "done"
  /\ dispatched # <<>>
  /\ \E i \in 1..Len(queue) : queue[i].id > SentinelPlace

\* C2 (as claimed): no exception leaves the dispatch loop, so the worker
\* thread is never ended by one.
C2_NoExceptionEndsWorker == wpc # "dead"

\* C3 (as claimed): once stop() has put the stop flag, stop() returns.
C3_StopReturns == (stopPc = "waiting") ~> (stopPc = "returned")

\* C4 (as claimed): the items are dispatched in the order they were put, each
\* at most once, and when the worker thread has ended every item put ahead
\* of the stop flag has been dispatched.
C4_EveryItemOnceInOrder ==
  /\ IsPrefix(dispatched, ItemsAhead)
  /\ wpc \in {"done", "dead"} => dispatched = ItemsAhead

\* C5: when start() has returned the started event is set and the worker has
\* reached its loop; the event is never reset, and set() runs only while
\* the event is unset, so it is set exactly once.
C5_StartWaitsForWorker ==
  /\ [](startPc = "returned" => started_event /\ wpc \notin {"unborn", "start"})
  /\ [][(started_event => started_event')
        /\ (wpc = "start" /\ wpc' # "start" => ~started_event /\ started_event')]_vars

\* C5 witness: start() has returned and the worker waits at queue.get().
C5_Witness == startPc = "returned" /\ wpc = "get" /\ started_event

\* ------------------------------------------------------- handler runs
\* One handler applied to one request against one zone table: the table,
\* the request and the port are drawn when the run begins.

BoundedSeqs(S, lo, hi) == UNION { [1..k -> S] : k \in lo..hi }

\* The network lists of the queries: networks of the table and one that
\* is not in it.
QueryNetLists == BoundedSeqs(Networks \cup {30}, 1, MaxQueryNets)

QueryCases ==
  { [kind |-> "query", datagram |-> <<Request(30, ZIP_DDP_TYPE, QueryData(nets))>>,
     rx_port |-> <<>>] : nets \in QueryNetLists }
  \cup
  { [kind |-> "query", datagram |-> <<Request(30, ZIP_DDP_TYPE, data)>>, rx_port |-> <<>>] :
      data \in { <<ZIP_FUNC_QUERY, 2, 0, 10>>, <<ZIP_FUNC_QUERY, 0>>, <<ZIP_FUNC_QUERY, 1, 0, 10, 0>> } }

\* get-zone-list has no port (None), get-local-zones the receiving port.
ZoneListCases ==
  { [kind |-> "zone_list",
     datagram |-> <<Request(30, ATP_DDP_TYPE,
                            AtpRequestData(IF rx_port = <<>> THEN ZIP_ATP_FUNC_GETZONELIST
                                           ELSE ZIP_ATP_FUNC_GETLOCALZONES, tid, start_index))>>,
     rx_port |-> rx_port] :
      rx_port \in { <<>>, <<Port10>>, <<Port20>>, <<PortRange>> },
      tid \in {7, 513},
      start_index \in 0..MaxStartIndex }

InitHandlers ==
  /\ zit \in Tables
  /\ tuple_lookup \in TupleLookups
  /\ InitService
  /\ InitNetwork
  /\ InitCycles
  /\ h_case \in QueryCases \cup ZoneListCases
  /\ h_result = <<>>

\* cls._query(router, datagram)
ApplyQuery ==
  /\ h_case.kind = "query"
  /\ h_result = <<>>
  /\ h_result' = << _query(zit, h_case.datagram[1], tuple_lookup) >>
  /\ UNCHANGED <<netVars, cycleVars, zit, tuple_lookup, h_case>>
  /\ UNCHANGED serviceVars

\* cls._get_zone_list(router, datagram) and
\* cls._get_zone_list(router, datagram, rx_port)
ApplyGetZoneList ==
  /\ h_case.kind = "zone_list"
  /\ h_result = <<>>
  /\ h_result' = << _get_zone_list(zit, h_case.datagram[1], h_case.rx_port) >>
  /\ UNCHANGED <<netVars, cycleVars, zit, tuple_lookup, h_case>>
  /\ UNCHANGED serviceVars

NextHandlers == ApplyQuery \/ ApplyGetZoneList

SpecHandlers == InitHandlers /\ [][NextHandlers]_vars

\* ------------------------------------------------- the reply of _query
\* The part of _query that follows the list of networks, on a list of
\* network numbers (ints): the zone list is built, and answered in one
\* datagram or by the fragmentation loop.

\* The networks of a query as numbers.
IntNetworks(data) ==
  [i \in 1..data[2] |-> IntValue(UnpackH(SubSeq(data, 2 * i + 1, 2 * i + 2)))]

InitFragment ==
  /\ zit \in Tables
  /\ tuple_lookup = "miss"
  /\ InitService
  /\ InitNetwork
  /\ InitCycles
  /\ h_case \in { c \in QueryCases : Len(c.datagram[1].data) = c.datagram[1].data[2] * 2 + 2
                                     /\ c.datagram[1].data[2] > 0 }
  /\ h_result = <<>>

ApplyQueryAnswer ==
  /\ h_case.kind = "query"
  /\ h_result = <<>>
  /\ LET networks == IntNetworks(h_case.datagram[1].data)
     IN h_result' = << QueryAnswer(h_case.datagram[1], networks,
                                   _networks_zone_list(zit, networks, tuple_lookup).items) >>
  /\ UNCHANGED <<netVars, cycleVars, zit, tuple_lookup, h_case>>
  /\ UNCHANGED serviceVars

NextFragment == ApplyQueryAnswer

SpecFragment == InitFragment /\ [][NextFragment]_vars

\* --------------------------------------------------- query properties

\* What the specification expects of a query, from the table alone: the
\* (network, zone name) entries of the listed networks, in request order
\* and table order, and their encoding [network:2][name_len:1][name].
RECURSIVE EntriesOfNetwork(_, _)
EntriesOfNetwork(network, zone_names) ==
  IF zone_names = <<>> THEN <<>>
  ELSE <<[network |-> network, zone_name |-> Head(zone_names)]>>
       \o EntriesOfNetwork(network, Tail(zone_names))

RECURSIVE ExpectedEntries(_, _)
ExpectedEntries(table, nets) ==
  IF nets = <<>> THEN <<>>
  ELSE EntriesOfNetwork(Head(nets), IF Head(nets) \in Networks THEN table[Head(nets)] ELSE <<>>)
       \o ExpectedEntries(table, Tail(nets))

EncodeEntry(e) == PackH(e.network) \o <<Len(e.zone_name)>> \o e.zone_name

EncodeEntries(entries) == Join([i \in 1..Len(entries) |-> EncodeEntry(entries[i])])

RECURSIVE ParseEntries(_)
\* The entries a reply body carries; an entry cut short parses as an entry
\* of network -1.
ParseEntries(b) ==
  IF b = <<>> THEN <<>>
  ELSE IF Len(b) < 3 \/ Len(b) < 3 + b[3] THEN <<[network |-> -1, zone_name |-> b]>>
  ELSE <<[network |-> UnpackH(b), zone_name |-> SubSeq(b, 4, 3 + b[3])]>>
       \o ParseEntries(SubSeq(b, 4 + b[3], Len(b)))

Range(f) == {f[i] : i \in DOMAIN f}

\* The networks listed by the query of the run, as numbers.
CaseNets == LET data == h_case.datagram[1].data
            IN [i \in 1..data[2] |-> UnpackH(SubSeq(data, 2 * i + 1, 2 * i + 2))]

\* A handler was applied to a well-formed query.
QueryApplied ==
  /\ h_case.kind = "query"
  /\ h_result # <<>>
  /\ Len(h_case.datagram[1].data) >= 4
  /\ Len(h_case.datagram[1].data) = h_case.datagram[1].data[2] * 2 + 2

\* The zone list of the query of the run fits one datagram.
CaseFits == Len(EncodeEntries(ExpectedEntries(zit, CaseNets))) + 2 <= MAX_DATA_LENGTH

\* The entries carried by the extended replies of the run, all together.
ExtReplyEntries ==
  UNION { Range(ParseEntries(SubSeq(o.datagram.data, 3, Len(o.datagram.data)))) :
          o \in {x \in Range(h_result[1].sent) : x.datagram.data[1] = ZIP_FUNC_EXT_REPLY} }

\* C6 (as claimed): a well-formed query whose zone list fits one datagram is
\* answered by exactly one routed reply with function code reply, the count
\* of the request, and one entry for every zone of every listed network, in
\* request order and table order.
C6_OneReplyWithEveryEntry ==
  QueryApplied /\ CaseFits =>
    /\ Len(h_result[1].sent) = 1
    /\ h_result[1].sent[1].via = "route"
    /\ h_result[1].sent[1].datagram.data =
         <<ZIP_FUNC_REPLY, Len(CaseNets)>> \o EncodeEntries(ExpectedEntries(zit, CaseNets))

C8_ExtRepliesCarryEveryEntry ==
  QueryApplied /\ ~CaseFits =>
    ExtReplyEntries = Range(ExpectedEntries(zit, CaseNets))

\* ----------------------------------------------- zone list properties

\* A handler was applied to a zone list request.
ZoneListApplied == h_case.kind = "zone_list" /\ h_result # <<>>

CaseStartIndex == UnpackH(SubSeq(h_case.datagram[1].data, 7, 8))

CaseTid == UnpackH(SubSeq(h_case.datagram[1].data, 3, 4))

\* The zone sequence the request of the run pages through: every zone of
\* the table, or the zones of the range of the receiving port.
CaseSource ==
  IF h_case.rx_port = <<>> THEN zones(zit)
  ELSE zones_in_network_range(zit, h_case.rx_port[1].network_min, h_case.rx_port[1].network_max)

\* [len:1][name] for the n entries of zs from place k on.
RECURSIVE EncodeZones(_, _, _)
EncodeZones(zs, k, n) ==
  IF n = 0 THEN <<>> ELSE <<Len(zs[k])>> \o zs[k] \o EncodeZones(zs, k + 1, n - 1)

\* The largest number of consecutive entries from place k on that fit a
\* datagram behind the 8 bytes of the header.
PageSize(zs, k) ==
  LET fits == {n \in 0..(IF k <= Len(zs) THEN Len(zs) - k + 1 ELSE 0) :
                 8 + Len(EncodeZones(zs, k, n)) <= MAX_DATA_LENGTH}
  IN CHOOSE n \in fits : \A m \in fits : m <= n

\* The reply of the run, when it is one routed ATP response.
ZoneListReply == h_result[1].sent[1].datagram.data

\* C9 (as claimed): for start index k >= 1 the reply carries exactly the
\* zones at places k .. k+N-1 of the source sequence, N the largest number
\* of consecutive entries from place k that fit behind the 8-byte header;
\* the zone count of the header is N and the transaction id the request's.
C9_PageIsLargestFit ==
  ZoneListApplied /\ CaseStartIndex >= 1 =>
    /\ Len(h_result[1].sent) = 1
    /\ SubSeq(ZoneListReply, 3, 4) = PackH(CaseTid)
    /\ SubSeq(ZoneListReply, 7, 8) = PackH(PageSize(CaseSource, CaseStartIndex))
    /\ SubSeq(ZoneListReply, 9, Len(ZoneListReply)) =
         EncodeZones(CaseSource, CaseStartIndex, PageSize(CaseSource, CaseStartIndex))

\* C10 (as claimed): last_flag is 1 if and only if no zone of the source
\* sequence lies after the last entry of the page, and 0 otherwise, for
\* every start index.
C10_LastFlagIffEnd ==
  ZoneListApplied =>
    LET first == IF CaseStartIndex >= 1 THEN CaseStartIndex ELSE 1
        returned == UnpackH(SubSeq(ZoneListReply, 7, 8))
    IN /\ ZoneListReply[5] \in {0, 1}
       /\ ZoneListReply[5] = 1 <=> first + returned > Len(CaseSource)


\* ------------------------------------------ get-net-info, get-my-zone
\* One of the two handlers applied to one request against one zone table.

\* The names asked for: in the letter case of the table, in the other
\* case, and names no table holds.
GivenNames == { <<>>, <<65>>, <<97>>, <<66, 99>>, <<98, 67>>, <<90>> }

\* Requests whose name field disagrees with the payload, whose zero field
\* is not zero, or that end before the name length.
OddNetInfoData ==
  { <<ZIP_FUNC_GETNETINFO_REQUEST, 0, 0, 0, 0, 0>>,
    <<ZIP_FUNC_GETNETINFO_REQUEST, 0, 0, 1, 0, 0, 1, 65>>,
    <<ZIP_FUNC_GETNETINFO_REQUEST, 0, 0, 0, 0, 0, 3, 65>>,
    <<ZIP_FUNC_GETNETINFO_REQUEST, 0, 0, 0, 0, 0, 0, 65>>,
    <<ZIP_FUNC_GETNETINFO_REQUEST, 0, 0, 0, 0, 0, 1, 97, 66>> }

NetInfoCases ==
  { [kind |-> "net_info", datagram |-> <<Request(10, ZIP_DDP_TYPE, data)>>, rx_port |-> <<rx_port>>] :
      data \in { GetNetInfoData(given) : given \in GivenNames } \cup OddNetInfoData,
      rx_port \in { Port10, Port20, PortRange, PortUnassigned } }

\* get-my-zone from a network of the table and from one that is not in it.
MyZoneCases ==
  { [kind |-> "my_zone",
     datagram |-> <<Request(source_network, ATP_DDP_TYPE,
                            AtpRequestData(ZIP_ATP_FUNC_GETMYZONE, tid, start_index))>>,
     rx_port |-> <<rx_port>>] :
      source_network \in Networks \cup {30},
      tid \in {7, 513},
      start_index \in {0, 1},
      rx_port \in { Port10, Port20 } }

InitNetInfo ==
  /\ zit \in Tables
  /\ tuple_lookup = "miss"
  /\ InitService
  /\ InitNetwork
  /\ InitCycles
  /\ h_case \in NetInfoCases \cup MyZoneCases
  /\ h_result = <<>>

\* cls._get_net_info(router, datagram, rx_port)
ApplyGetNetInfo ==
  /\ h_case.kind = "net_info"
  /\ h_result = <<>>
  /\ h_result' = << _get_net_info(zit, h_case.datagram[1], h_case.rx_port[1]) >>
  /\ UNCHANGED <<netVars, cycleVars, zit, tuple_lookup, h_case>>
  /\ UNCHANGED serviceVars

\* cls._get_my_zone(router, datagram)
ApplyGetMyZone ==
  /\ h_case.kind = "my_zone"
  /\ h_result = <<>>
  /\ h_result' = << _get_my_zone(zit, h_case.datagram[1]) >>
  /\ UNCHANGED <<netVars, cycleVars, zit, tuple_lookup, h_case>>
  /\ UNCHANGED serviceVars

NextNetInfo == ApplyGetNetInfo \/ ApplyGetMyZone

SpecNetInfo == InitNetInfo /\ [][NextNetInfo]_vars

\* ------------------------------------------- get-net-info properties

NetInfoApplied == h_case.kind = "net_info" /\ h_result # <<>>

CasePort == h_case.rx_port[1]

CaseData == h_case.datagram[1].data

\* The port has a network range and an address in it.
PortAssigned(port) == port.network # 0 /\ port.network_min # 0 /\ port.network_max # 0

\* The name a request asks for: the bytes that follow the name length, as
\* many of them as the length says and the request holds.
QueriedName(data) ==
  [i \in 1..(IF Len(data) - 7 < data[7] THEN Len(data) - 7 ELSE data[7]) |-> data[7 + i]]

\* The zone names of the networks of the port's range, from the table.
RangeZoneNames(port) ==
  { zit[n][i] : <<n, i>> \in { p \in Networks \X (1..MaxZones) :
                                 /\ p[1] >= port.network_min
                                 /\ p[1] <= port.network_max
                                 /\ p[2] <= Len(zit[p[1]]) } }

\* The fields of a get-net-info reply.
NetInfoReply == h_result[1].sent[1].datagram.data

ReplyZoneInvalid == (NetInfoReply[2] \div ZIP_GETNETINFO_ZONE_INVALID) % 2 = 1

ReplyGivenLen == NetInfoReply[7]

ReplyGivenZone == SubSeq(NetInfoReply, 8, 7 + ReplyGivenLen)

ReplyMulticastLen == NetInfoReply[8 + ReplyGivenLen]

ReplyMulticast == SubSeq(NetInfoReply, 9 + ReplyGivenLen, 8 + ReplyGivenLen + ReplyMulticastLen)

ReplyTail == SubSeq(NetInfoReply, 9 + ReplyGivenLen + ReplyMulticastLen, Len(NetInfoReply))

\* C11: in every reply to a get-net-info request on a port with an assigned
\* range, the zone-invalid bit is clear exactly when some zone of the port's
\* range equals the queried name once both are folded to upper case, and
\* the given-zone field holds the bytes of the queried name unchanged.
C11_ZoneInvalidIffNoMatch ==
  NetInfoApplied /\ PortAssigned(CasePort) /\ h_result[1].sent # <<>> =>
    /\ Len(h_result[1].sent) = 1
    /\ Len(NetInfoReply) >= 8 + ReplyGivenLen
    /\ ~ReplyZoneInvalid <=>
         \E zone_name \in RangeZoneNames(CasePort) : ucase(zone_name) = ucase(QueriedName(CaseData))
    /\ ReplyGivenZone = QueriedName(CaseData)

\* C11 witness: the request names "bC", the range of the port holds "Bc",
\* and the reply has the zone-invalid bit clear and echoes "bC".
C11_Witness ==
  /\ NetInfoApplied
  /\ CasePort = PortRange
  /\ CaseData = GetNetInfoData(<<98, 67>>)
  /\ h_result[1].sent # <<>>
  /\ ~ReplyZoneInvalid
  /\ ReplyGivenZone = <<98, 67>>


\* A request the handler answers according to the specification: the zero
\* field is zero and the name field fills the rest of the payload.
WellFormedNetInfo(data) ==
  /\ Len(data) >= 7
  /\ SubSeq(data, 2, 6) = <<0, 0, 0, 0, 0>>
  /\ Len(data) = 7 + data[7]

\* The zones enumerated for the range of the port.
RangeZones(port) == zones_in_network_range(zit, port.network_min, port.network_max)

\* C12: every well-formed get-net-info request on a port with an assigned
\* range gets one reply through the receiving port, whatever the table
\* holds (a range without zones included); the reply ends with
\* [default_zone_len][default_zone] exactly when its zone-invalid bit is
\* set, and that default zone is the first zone enumerated for the range.
C12_DefaultZoneIffInvalid ==
  NetInfoApplied /\ PortAssigned(CasePort) /\ WellFormedNetInfo(CaseData) =>
    /\ h_result[1].raised = ""
    /\ Len(h_result[1].sent) = 1
    /\ h_result[1].sent[1].via = "send"
    /\ Len(NetInfoReply) >= 8 + ReplyGivenLen
    /\ IF ReplyZoneInvalid
       THEN /\ ReplyTail # <<>>
            /\ ReplyTail[1] = Len(ReplyTail) - 1
            /\ RangeZones(CasePort) # <<>> => Tail(ReplyTail) = RangeZones(CasePort)[1]
       ELSE ReplyTail = <<>>

\* The same for the ranges that hold a zone.
C12_WhenRangeHasZones == RangeZones(CasePort) = <<>> \/ C12_DefaultZoneIffInvalid


\* The zero field of the request is not zero.
ZeroFieldNonZero(data) == Len(data) >= 6 /\ SubSeq(data, 2, 6) # <<0, 0, 0, 0, 0>>

\* The name length of the request disagrees with the length of the payload.
NameLengthInconsistent(data) == Len(data) < 7 \/ Len(data) # 7 + data[7]

\* C13: a get-net-info request gets no reply, neither sent through the port
\* nor routed, when the port has no assigned range, when the zero field is
\* not zero, or when the payload length differs from 7 + given_zone_len.
C13_MalformedDropped ==
  NetInfoApplied /\ (\/ ~PortAssigned(CasePort)
                     \/ ZeroFieldNonZero(CaseData)
                     \/ NameLengthInconsistent(CaseData)) =>
    h_result[1].sent = <<>>

\* The first two reasons alone.
C13_UnassignedOrNonZeroDropped ==
  NetInfoApplied /\ (~PortAssigned(CasePort) \/ ZeroFieldNonZero(CaseData)) =>
    h_result[1] = Returned(<<>>)


\* --------------------------------------------- get-my-zone properties

MyZoneApplied == h_case.kind = "my_zone" /\ h_result # <<>>

\* The zones the table holds for the network the request came from.
SourceZones ==
  LET source_network == h_case.datagram[1].source_network
  IN IF source_network \in Networks THEN zit[source_network] ELSE <<>>

MyZoneReply == h_result[1].sent[1].datagram.data

\* What the specification expects of the request at hand.
MyZoneAnswered ==
  IF CaseStartIndex = 0 /\ SourceZones # <<>>
  THEN /\ Len(h_result[1].sent) = 1
       /\ h_result[1].sent[1].via = "route"
       /\ Len(MyZoneReply) >= 9
       /\ UnpackH(SubSeq(MyZoneReply, 3, 4)) = CaseTid
       /\ UnpackH(SubSeq(MyZoneReply, 7, 8)) = 1
       /\ SubSeq(MyZoneReply, 9, Len(MyZoneReply)) = <<Len(SourceZones[1])>> \o SourceZones[1]
  ELSE h_result[1].sent = <<>>

\* C14: a get-my-zone request gets exactly one routed reply when its start
\* index is 0 and the table holds at least one zone for the network the
\* request came from, and no reply otherwise; the reply carries the
\* transaction id of the request, a zone count of 1 and the first zone of
\* the source network, whatever the receiving port.
C14_MyZoneIsFirstOfSource == MyZoneApplied => MyZoneAnswered

\* The same for the source networks whose first zone name is not empty.
C14_WhenFirstNameNotEmpty ==
  MyZoneApplied /\ (SourceZones = <<>> \/ SourceZones[1] # <<>>) => MyZoneAnswered


\* --------------------------------------------- the break of the scan

RECURSIVE ZoneScanWhole(_, _, _, _, _)
\* The scan of lines 91-102 over the whole zone sequence, without its break.
ZoneScanWhole(rx_port, zone_seq, k, given_zone_name_ucase, st) ==
  IF k > Len(zone_seq) THEN st
  ELSE LET zone_name == zone_seq[k]
           first == st.default_zone_name = <<>>
           match == ucase(zone_name) = given_zone_name_ucase
           number == st.number_of_zones + 1
       IN ZoneScanWhole(rx_port, zone_seq, k + 1, given_zone_name_ucase,
            [zone_invalid |-> st.zone_invalid /\ ~match,
             only_one_zone |-> st.only_one_zone /\ ~(number > 1),
             default_zone_name |-> IF first THEN <<zone_name>> ELSE st.default_zone_name,
             number_of_zones |-> number,
             multicast_address |->
               IF match \/ first THEN multicast_address(rx_port, zone_name)
               ELSE st.multicast_address])

\* The request reaches the scan.
ReachesScan == PortAssigned(CasePort) /\ Len(CaseData) >= 7 /\ ~ZeroFieldNonZero(CaseData)

\* The scan of the handler on the request at hand, and the scan of the
\* whole sequence.
BreakingScan == ZoneScan(CasePort, RangeZones(CasePort), 1, ucase(QueriedName(CaseData)), ScanStart)

WholeScan == ZoneScanWhole(CasePort, RangeZones(CasePort), 1, ucase(QueriedName(CaseData)), ScanStart)

ReplyOnlyOneZone == (NetInfoReply[2] \div ZIP_GETNETINFO_ONLY_ONE_ZONE) % 2 = 1

\* C17: the scan that breaks early ends with the flags (zone-invalid,
\* only-one-zone, use-broadcast) and the multicast address of a scan of
\* the whole zone sequence, only-one-zone is set exactly when the range
\* has fewer than two zones, and a reply carries these flags and this
\* address.
C17_BreakKeepsReply ==
  NetInfoApplied /\ ReachesScan =>
    /\ BreakingScan.zone_invalid = WholeScan.zone_invalid
    /\ BreakingScan.only_one_zone = WholeScan.only_one_zone
    /\ BreakingScan.multicast_address = WholeScan.multicast_address
    /\ NetInfoFlags(BreakingScan) = NetInfoFlags(WholeScan)
    /\ BreakingScan.only_one_zone <=> Len(RangeZones(CasePort)) < 2
    /\ h_result[1].sent # <<>> =>
         /\ NetInfoReply[2] = NetInfoFlags(WholeScan)
         /\ ReplyMulticast = WholeScan.multicast_address
         /\ ReplyOnlyOneZone <=> Len(RangeZones(CasePort)) < 2

\* C17 witness: the range has three zones or more, the scan found the name
\* and broke before the last zone, and the request was answered.
C17_Witness ==
  /\ NetInfoApplied
  /\ ReachesScan
  /\ Len(RangeZones(CasePort)) >= 3
  /\ BreakingScan.number_of_zones < Len(RangeZones(CasePort))
  /\ h_result[1].sent # <<>>
  /\ ~ReplyZoneInvalid


\* ------------------------------------------- virtual LocalTalk network
\* VirtualLocalTalkNetwork with its ports. A thread calls start(), stop()
\* and send_packet() of the ports; a receive callback, while it runs, may
\* make the same calls, which nest on the stack of its thread.

\* At most this many send_packet calls in a run, and this many nested calls.
MaxSends == 2
MaxDepth == 3

\* The packet of the n-th send_packet call: no two calls send the same.
PacketData(n) == <<255, n>>

\* A call in progress: plug, unplug, send_packet or a receive callback.
\* func is the callback the call was given (recv_func) or the one running.
Frame(op, func, pc, packet_data, id) ==
  [op |-> op, func |-> func, pc |-> pc, packet_data |-> packet_data,
   function_calls |-> <<>>, id |-> id]

Top(t) == stack[t][Len(stack[t])]

Push(t, frame) == [stack EXCEPT ![t] = Append(@, frame)]

Pop(t) == [stack EXCEPT ![t] = SubSeq(@, 1, Len(@) - 1)]

SetTop(t, frame) == [stack EXCEPT ![t] = [@ EXCEPT ![Len(@)] = frame]]

\* Thread t can make a call: it is idle and one of the threads given, or
\* it runs a receive callback.
CanCall(t, idle_threads) ==
  IF stack[t] = <<>> THEN t \in idle_threads
  ELSE Top(t).op = "recv" /\ Len(stack[t]) < MaxDepth

\* Thread t can make a call on port p: an idle thread on any port, a
\* receive callback on the port it belongs to.
CanCallOn(t, idle_threads, p) ==
  IF stack[t] = <<>> THEN t \in idle_threads
  ELSE Top(t).op = "recv" /\ Len(stack[t]) < MaxDepth /\ Top(t).func = p

SeqRange(s) == { s[i] : i \in 1..Len(s) }

\* deque.remove(recv_func): the first occurrence goes.
RECURSIVE RemoveFirst(_, _)
RemoveFirst(deque, recv_func) ==
  IF deque = <<>> THEN <<>>
  ELSE IF Head(deque) = recv_func THEN Tail(deque)
  ELSE <<Head(deque)>> \o RemoveFirst(Tail(deque), recv_func)

\* `if func == recv_func: continue` with the test always false.
SkipsNobody(func, recv_func) == FALSE

\* `if func == recv_func: continue`
SkipsSender(func, recv_func) == func = recv_func

\* The for loop under the lock: one (func, packet_data) for every plugged
\* callback but the sender's.
RECURSIVE CollectCalls(_, _, _)
CollectCalls(plugged, recv_func, packet_data) ==
  IF plugged = <<>> THEN <<>>
  ELSE (IF SkipsSender(Head(plugged), recv_func) THEN <<>>
        ELSE << [func |-> Head(plugged), packet_data |-> packet_data] >>)
       \o CollectCalls(Tail(plugged), recv_func, packet_data)

\* The lock kept until send_packet returns.
ReleasedAfterDelivery == FALSE

\* The with block of send_packet ends before the delivery loop.
ReleasedBeforeDelivery == TRUE

InitVirtual ==
  /\ zit = [n \in Networks |-> <<>>]
  /\ tuple_lookup = "miss"
  /\ InitService
  /\ InitNetwork
  /\ InitCycles
  /\ h_case = NoCase
  /\ h_result = <<>>

\* VirtualLocalTalkPort.start(router), up to the call of plug
PortStart ==
  \E t \in VThreads, p \in VPorts :
    /\ CanCall(t, PluggingThreads)
    /\ port_state[p] = "stopped"
    /\ port_state' = [port_state EXCEPT ![p] = "starting"]
    /\ stack' = Push(t, Frame("plug", p, "acquire", <<>>, 0))
    /\ UNCHANGED <<_plugged, _lock, sends, invoked>>
    /\ UNCHANGED <<cycleVars, zit, tuple_lookup, serviceVars, handlerVars>>

\* VirtualLocalTalkPort.stop(), up to the call of unplug
PortStop ==
  \E t \in VThreads, p \in VPorts :
    /\ CanCallOn(t, PluggingThreads, p)
    /\ port_state[p] = "started"
    /\ port_state' = [port_state EXCEPT ![p] = "stopping"]
    /\ stack' = Push(t, Frame("unplug", p, "acquire", <<>>, 0))
    /\ UNCHANGED <<_plugged, _lock, sends, invoked>>
    /\ UNCHANGED <<cycleVars, zit, tuple_lookup, serviceVars, handlerVars>>

\* VirtualLocalTalkPort.send_packet(packet_data) of a port that was started,
\* up to the lock of VirtualLocalTalkNetwork.send_packet
PortSendPacket ==
  \E t \in VThreads, p \in VPorts :
    /\ CanCallOn(t, SendingThreads, p)
    /\ port_state[p] \in {"started", "stopping"}
    /\ Len(sends) < MaxSends
    /\ sends' = Append(sends, [recv_func |-> p, packet_data |-> PacketData(Len(sends) + 1), state |-> "called",
                               snapshot |-> {}])
    /\ invoked' = Append(invoked, [q \in VPorts |-> <<>>])
    /\ stack' = Push(t, Frame("send", p, "acquire", PacketData(Len(sends) + 1), Len(sends) + 1))
    /\ UNCHANGED <<_plugged, _lock, port_state>>
    /\ UNCHANGED <<cycleVars, zit, tuple_lookup, serviceVars, handlerVars>>

\* `with self._lock:` entered by plug, unplug or send_packet
LockAcquire ==
  \E t \in VThreads :
    /\ stack[t] # <<>>
    /\ Top(t).pc = "acquire"
    /\ _lock = "free"
    /\ _lock' = t
    /\ stack' = SetTop(t, [Top(t) EXCEPT !.pc = "locked"])
    /\ UNCHANGED <<_plugged, port_state, sends, invoked>>
    /\ UNCHANGED <<cycleVars, zit, tuple_lookup, serviceVars, handlerVars>>

\* plug(recv_func) under the lock, and its return
Plug ==
  \E t \in VThreads :
    /\ stack[t] # <<>>
    /\ Top(t).op = "plug" /\ Top(t).pc = "locked"
    /\ _plugged' = Append(_plugged, Top(t).func)
    /\ _lock' = "free"
    /\ port_state' = [port_state EXCEPT ![Top(t).func] = "started"]
    /\ stack' = Pop(t)
    /\ UNCHANGED <<sends, invoked>>
    /\ UNCHANGED <<cycleVars, zit, tuple_lookup, serviceVars, handlerVars>>

\* unplug(recv_func) under the lock, and its return; the callback is in
\* the deque, since stop() follows a start() that returned. A port is
\* started and stopped once in a run.
Unplug ==
  \E t \in VThreads :
    /\ stack[t] # <<>>
    /\ Top(t).op = "unplug" /\ Top(t).pc = "locked"
    /\ _plugged' = RemoveFirst(_plugged, Top(t).func)
    /\ _lock' = "free"
    /\ port_state' = [port_state EXCEPT ![Top(t).func] = "closed"]
    /\ stack' = Pop(t)
    /\ UNCHANGED <<sends, invoked>>
    /\ UNCHANGED <<cycleVars, zit, tuple_lookup, serviceVars, handlerVars>>

\* send_packet under the lock: function_calls is filled from _plugged
SendSnapshot ==
  \E t \in VThreads :
    /\ stack[t] # <<>>
    /\ Top(t).op = "send" /\ Top(t).pc = "locked"
    /\ stack' = SetTop(t, [Top(t) EXCEPT
                             !.pc = "deliver",
                             !.function_calls = CollectCalls(_plugged, Top(t).func, Top(t).packet_data)])
    /\ sends' = [sends EXCEPT ![Top(t).id].state = "snapshot", ![Top(t).id].snapshot = SeqRange(_plugged)]
    /\ _lock' = IF ReleasedBeforeDelivery THEN "free" ELSE _lock
    /\ UNCHANGED <<_plugged, port_state, invoked>>
    /\ UNCHANGED <<cycleVars, zit, tuple_lookup, serviceVars, handlerVars>>

\* `func(packet_data)` for the next entry of function_calls
SendInvoke ==
  \E t \in VThreads :
    /\ stack[t] # <<>>
    /\ Top(t).op = "send" /\ Top(t).pc = "deliver"
    /\ Top(t).function_calls # <<>>
    /\ LET call == Head(Top(t).function_calls)
           rest == [Top(t) EXCEPT !.function_calls = Tail(@)]
       IN /\ stack' = [stack EXCEPT ![t] =
                         Append([@ EXCEPT ![Len(@)] = rest],
                                Frame("recv", call.func, "run", call.packet_data, Top(t).id))]
          /\ invoked' = [invoked EXCEPT ![Top(t).id][call.func] = Append(@, call.packet_data)]
    /\ UNCHANGED <<_plugged, _lock, port_state, sends>>
    /\ UNCHANGED <<cycleVars, zit, tuple_lookup, serviceVars, handlerVars>>

\* VirtualLocalTalkPort._recv_packet returns
RecvReturn ==
  \E t \in VThreads :
    /\ stack[t] # <<>>
    /\ Top(t).op = "recv"
    /\ stack' = Pop(t)
    /\ UNCHANGED <<_plugged, _lock, port_state, sends, invoked>>
    /\ UNCHANGED <<cycleVars, zit, tuple_lookup, serviceVars, handlerVars>>

\* send_packet returns after the last callback
SendReturn ==
  \E t \in VThreads :
    /\ stack[t] # <<>>
    /\ Top(t).op = "send" /\ Top(t).pc = "deliver"
    /\ Top(t).function_calls = <<>>
    /\ sends' = [sends EXCEPT ![Top(t).id].state = "returned"]
    /\ _lock' = IF ReleasedBeforeDelivery THEN _lock ELSE "free"
    /\ stack' = Pop(t)
    /\ UNCHANGED <<_plugged, port_state, invoked>>
    /\ UNCHANGED <<cycleVars, zit, tuple_lookup, serviceVars, handlerVars>>

NextVirtual ==
  \/ PortStart
  \/ PortStop
  \/ PortSendPacket
  \/ LockAcquire
  \/ Plug
  \/ Unplug
  \/ SendSnapshot
  \/ SendInvoke
  \/ RecvReturn
  \/ SendReturn

SpecVirtual == InitVirtual /\ [][NextVirtual]_vars

\* ------------------------------------------ virtual network properties

\* The ports whose callback a send_packet call has invoked.
Receivers(id) == { p \in VPorts : invoked[id][p] # <<>> }

\* C15: send_packet(data, sender) never invokes the callback of the sender,
\* invokes no callback twice and passes nothing but data; once it has
\* returned, it has invoked the callback of every other port that was
\* plugged when it looked at the list, exactly once.
C15_EveryOtherPortOnce ==
  \A id \in 1..Len(sends) :
    /\ invoked[id][sends[id].recv_func] = <<>>
    /\ \A p \in VPorts :
         /\ Len(invoked[id][p]) <= 1
         /\ \A i \in 1..Len(invoked[id][p]) : invoked[id][p][i] = sends[id].packet_data
    /\ sends[id].state = "returned" =>
         \A p \in sends[id].snapshot \ {sends[id].recv_func} : Len(invoked[id][p]) = 1

\* C15 witness: a send_packet of a plugged port has returned after it
\* invoked the callbacks of the two other ports.
C15_Witness ==
  \E id \in 1..Len(sends) :
    /\ sends[id].state = "returned"
    /\ sends[id].recv_func \in sends[id].snapshot
    /\ Cardinality(Receivers(id)) = 2


\* C18: no callback runs under the lock of the network, so a callback that
\* calls plug, unplug or send_packet never waits for a lock its own thread
\* holds; and the callbacks a send_packet has invoked when it returns are
\* those plugged at the moment it read the list under the lock, the
\* sender's left out, whatever was plugged or unplugged since.
C18_DeliveryOutsideLock ==
  /\ \A t \in VThreads :
       stack[t] # <<>> =>
         /\ _lock = t => Top(t).pc = "locked"
         /\ Top(t).pc = "acquire" => _lock # t
  /\ \A id \in 1..Len(sends) :
       sends[id].state = "returned" =>
         Receivers(id) = sends[id].snapshot \ {sends[id].recv_func}

\* C18 witness: a callback has called into the network and holds the lock,
\* and a send_packet has returned with receivers that are not the ports
\* plugged now.
C18_Witness ==
  /\ \E t \in VThreads :
       /\ Len(stack[t]) >= 3
       /\ Top(t).pc = "locked"
       /\ stack[t][Len(stack[t]) - 1].op = "recv"
  /\ \E id \in 1..Len(sends) :
       /\ sends[id].state = "returned"
       /\ Receivers(id) # {}
       /\ Receivers(id) # SeqRange(_plugged) \ {sends[id].recv_func}


\* --------------------------------------------------- dispatch in _run
\* The body of the loop of _run applied to one item.

\* Payloads of ATP datagrams: well-formed requests for each function and
\* for one that is none of the three, and requests that are too short, too
\* long, or wrong in one header field.
AtpPayloads ==
  { AtpRequestData(func, 7, start_index) :
      func \in { ZIP_ATP_FUNC_GETMYZONE, ZIP_ATP_FUNC_GETZONELIST, ZIP_ATP_FUNC_GETLOCALZONES, 10 },
      start_index \in {0, 1} }
  \cup
  { <<control, bitmap, 0, 7, func, zero, 0, 1>> :
      control \in { ATP_FUNC_TREQ, ATP_FUNC_TRESP, ATP_FUNC_TREQ + ATP_EOM },
      bitmap \in {0, 1, 3},
      func \in { ZIP_ATP_FUNC_GETMYZONE, ZIP_ATP_FUNC_GETZONELIST },
      zero \in {0, 1} }
  \cup
  { <<>>,
    <<ATP_FUNC_TREQ, 1, 0, 7, ZIP_ATP_FUNC_GETZONELIST, 0, 0>>,
    <<ATP_FUNC_TREQ, 1, 0, 7, ZIP_ATP_FUNC_GETZONELIST, 0, 0, 1, 0>> }

\* Payloads of ZIP datagrams: none, a query, a get-net-info request, and
\* functions the responder has no branch for.
ZipPayloads ==
  { <<>>,
    QueryData(<<10>>),
    GetNetInfoData(<<65>>),
    <<ZIP_FUNC_REPLY, 1, 0, 10, 1, 65>>,
    <<ZIP_FUNC_GETNETINFO_REPLY, 0, 0, 10, 0, 10, 0, 0>>,
    <<255>> }

DispatchCases ==
  { [kind |-> "dispatch", datagram |-> <<Request(10, ATP_DDP_TYPE, data)>>, rx_port |-> <<Port10>>] :
      data \in AtpPayloads }
  \cup
  { [kind |-> "dispatch", datagram |-> <<Request(10, ZIP_DDP_TYPE, data)>>, rx_port |-> <<Port10>>] :
      data \in ZipPayloads }
  \cup
  { [kind |-> "dispatch", datagram |-> <<Request(10, ddp_type, data)>>, rx_port |-> <<Port10>>] :
      ddp_type \in {0, 2, 4},
      data \in { <<>>, QueryData(<<10>>), AtpRequestData(ZIP_ATP_FUNC_GETZONELIST, 7, 1) } }

InitDispatch ==
  /\ zit \in Tables
  /\ tuple_lookup \in TupleLookups
  /\ InitService
  /\ InitNetwork
  /\ InitCycles
  /\ h_case \in DispatchCases
  /\ h_result = <<>>

\* The body of the while loop of _run on one item that is not the stop flag
ApplyDispatch ==
  /\ h_case.kind = "dispatch"
  /\ h_result = <<>>
  /\ h_result' = << Dispatch(zit, h_case.datagram[1], h_case.rx_port[1], tuple_lookup) >>
  /\ UNCHANGED <<netVars, cycleVars, zit, tuple_lookup, h_case>>
  /\ UNCHANGED serviceVars

NextDispatch == ApplyDispatch

SpecDispatch == InitDispatch /\ [][NextDispatch]_vars

DispatchApplied == h_case.kind = "dispatch" /\ h_result # <<>>

CaseDatagram == h_case.datagram[1]

\* An ATP datagram the specification lets through to a handler.
WellFormedAtp(datagram) ==
  /\ datagram.ddp_type = ATP_DDP_TYPE
  /\ Len(datagram.data) = 8
  /\ datagram.data[1] = ATP_FUNC_TREQ
  /\ datagram.data[2] = 1
  /\ datagram.data[6] = 0

\* A datagram the specification has no handler for.
Unhandled(datagram) ==
  \/ datagram.ddp_type = ATP_DDP_TYPE /\ ~WellFormedAtp(datagram)
  \/ /\ WellFormedAtp(datagram)
     /\ datagram.data[5] \notin { ZIP_ATP_FUNC_GETMYZONE, ZIP_ATP_FUNC_GETZONELIST,
                                  ZIP_ATP_FUNC_GETLOCALZONES }
  \/ datagram.ddp_type = ZIP_DDP_TYPE /\ datagram.data = <<>>
  \/ /\ datagram.ddp_type = ZIP_DDP_TYPE
     /\ datagram.data # <<>>
     /\ datagram.data[1] \notin { ZIP_FUNC_QUERY, ZIP_FUNC_GETNETINFO_REQUEST }
  \/ datagram.ddp_type \notin { ZIP_DDP_TYPE, ATP_DDP_TYPE }

AtpHandlers == { "_get_my_zone", "_get_zone_list", "_get_local_zones" }

\* C16: the loop calls get-my-zone, get-zone-list or get-local-zones only
\* for an ATP datagram of exactly 8 bytes whose control is a transaction
\* request, whose bitmap is 1 and whose reserved byte is 0; any other ATP
\* datagram, a ZIP datagram without payload and a datagram of a type or
\* function the responder does not know get no reply and the worker goes
\* on to the next item.
C16_OnlyWellFormedDispatched ==
  DispatchApplied =>
    /\ Handler(CaseDatagram) \in AtpHandlers => WellFormedAtp(CaseDatagram)
    /\ Unhandled(CaseDatagram) =>
         /\ Handler(CaseDatagram) \in {"continue", "none"}
         /\ h_result[1].sent = <<>>
         /\ h_result[1].raised = ""
         /\ AfterDispatch(h_result[1]) = "get"

\* C16 witness: a get-zone-list request with a bitmap of 3 was dispatched
\* and got no reply.
C16_Witness ==
  /\ DispatchApplied
  /\ CaseDatagram.data = <<ATP_FUNC_TREQ, 3, 0, 7, ZIP_ATP_FUNC_GETZONELIST, 0, 0, 1>>
  /\ h_result[1] = Returned(<<>>)


\* ------------------------------------------------ paging a zone list
\* A client pages through get-zone-list: start index 1, then the index
\* after the zones of the replies so far, until a reply has its last flag
\* set. h_case holds the request to come, h_result the replies so far.

\* At most this many requests in a run.
MaxPages == 6

PagingRequest(start_index) ==
  [kind |-> "paging",
   datagram |-> <<Request(30, ATP_DDP_TYPE,
                          AtpRequestData(ZIP_ATP_FUNC_GETZONELIST, 7, start_index))>>,
   rx_port |-> <<>>]

\* The zone count and the last flag of a reply.
ReplyCount(result) == UnpackH(SubSeq(result.sent[1].datagram.data, 7, 8))

ReplyLastFlag(result) == result.sent[1].datagram.data[5]

InitPaging ==
  /\ zit \in Tables
  /\ tuple_lookup = "miss"
  /\ InitService
  /\ InitNetwork
  /\ InitCycles
  /\ h_case = PagingRequest(1)
  /\ h_result = <<>>

\* The client has its last page.
PagingStopped ==
  /\ h_case.kind = "paging"
  /\ h_result # <<>>
  /\ ReplyLastFlag(h_result[Len(h_result)]) # 0

\* cls._get_zone_list(router, datagram) on the request to come, and the
\* client's next request
ApplyNextPage ==
  /\ h_case.kind = "paging"
  /\ ~PagingStopped
  /\ Len(h_result) < MaxPages
  /\ LET result == _get_zone_list(zit, h_case.datagram[1], h_case.rx_port)
     IN /\ h_result' = Append(h_result, result)
        /\ h_case' = PagingRequest(CaseStartIndex + ReplyCount(result))
  /\ UNCHANGED <<netVars, cycleVars, zit, tuple_lookup>>
  /\ UNCHANGED serviceVars

NextPaging == ApplyNextPage

SpecPaging == InitPaging /\ [][NextPaging]_vars

\* The client goes on asking as long as it has no last page.
FairSpecPaging == SpecPaging /\ WF_vars(ApplyNextPage)

\* The zone names of a reply, read as its zone count says.
RECURSIVE ParseZones(_, _)
ParseZones(bytes, count) ==
  IF count = 0 \/ bytes = <<>> THEN <<>>
  ELSE <<SubSeq(bytes, 2, 1 + bytes[1])>>
       \o ParseZones(SubSeq(bytes, 2 + bytes[1], Len(bytes)), count - 1)

PageZones(result) ==
  ParseZones(SubSeq(result.sent[1].datagram.data, 9, Len(result.sent[1].datagram.data)),
             ReplyCount(result))

RECURSIVE ConcatPages(_)
ConcatPages(results) ==
  IF results = <<>> THEN <<>> ELSE PageZones(Head(results)) \o ConcatPages(Tail(results))

\* The pages the client holds are the zone sequence of the table.
PagesAreAllZones == ConcatPages(h_result) = zones(zit)

\* C19: against an unchanging table the client that starts at index 1 and
\* goes on from the zone count of each reply reaches a reply with the last
\* flag set, and the pages it then holds, one after the other, are the
\* whole zone sequence, no zone left out and none twice.
C19_PagingCoversEveryZone ==
  /\ <>PagingStopped
  /\ [](PagingStopped => PagesAreAllZones)

\* The same for the tables without a zone name of zero length.
NoEmptyZoneName == \A n \in Networks : \A i \in 1..Len(zit[n]) : zit[n][i] # <<>>

C19_WhenNoNameIsEmpty ==
  /\ <>PagingStopped
  /\ [](PagingStopped /\ NoEmptyZoneName => PagesAreAllZones)


\* ------------------------------------------- repeated start and stop
\* start() and stop() called any number of times, in any order, on one
\* instance: every start() creates a worker thread running _run.

\* At most this many start() and stop() calls in a run.
MaxCalls == 4

\* The items put by inbound(): one that is skipped, one that is answered.
LifecycleInputs ==
  { <<Request(10, ZIP_DDP_TYPE, <<>>), Port10>>,
    <<Request(10, ATP_DDP_TYPE, AtpRequestData(ZIP_ATP_FUNC_GETZONELIST, 7, 1)), Port10>> }

Call(op) == [op |-> op, pc |-> "waiting", consuming |-> {}]

\* The workers that are in the loop of _run, at queue.get().
Consuming == { w \in 1..Len(workers) : workers[w] = "get" }

InitLifecycle ==
  /\ zit = [n \in Networks |-> <<>>]
  /\ tuple_lookup = "miss"
  /\ InitService
  /\ InitNetwork
  /\ InitCycles
  /\ h_case = NoCase
  /\ h_result = <<>>

\* start(router): the thread is created and started
CallStart ==
  /\ Len(calls) < MaxCalls
  /\ thread' = "Thread"
  /\ workers' = Append(workers, "start")
  /\ calls' = Append(calls, Call("start"))
  /\ UNCHANGED <<netVars, zit, tuple_lookup, queue, started_event, stopped_event, wpc, startPc, stopPc,
                 enqueued, dispatched, sent>>
  /\ UNCHANGED handlerVars

\* start(router): self.started_event.wait() returns
CallStartReturn ==
  \E c \in 1..Len(calls) :
    /\ calls[c].op = "start"
    /\ calls[c].pc = "waiting"
    /\ StartedEventWait
    /\ calls' = [calls EXCEPT ![c].pc = "returned"]
    /\ UNCHANGED <<netVars, workers, zit, tuple_lookup, thread, queue, started_event, stopped_event, wpc,
                   startPc, stopPc, enqueued, dispatched, sent>>
    /\ UNCHANGED handlerVars

\* stop(): self.queue.put(self.stop_flag)
CallStop ==
  /\ Len(calls) < MaxCalls
  /\ queue' = Append(queue, StopFlagItem(Len(enqueued) + 1))
  /\ enqueued' = Append(enqueued, StopFlagItem(Len(enqueued) + 1))
  /\ calls' = Append(calls, Call("stop"))
  /\ UNCHANGED <<netVars, workers, zit, tuple_lookup, thread, started_event, stopped_event, wpc, startPc,
                 stopPc, dispatched, sent>>
  /\ UNCHANGED handlerVars

\* stop(): self.stopped_event.wait() returns; the call keeps which workers
\* were in the loop when it returned
CallStopReturn ==
  \E c \in 1..Len(calls) :
    /\ calls[c].op = "stop"
    /\ calls[c].pc = "waiting"
    /\ stopped_event
    /\ calls' = [calls EXCEPT ![c].pc = "returned", ![c].consuming = Consuming]
    /\ UNCHANGED <<netVars, workers, zit, tuple_lookup, thread, queue, started_event, stopped_event, wpc,
                   startPc, stopPc, enqueued, dispatched, sent>>
    /\ UNCHANGED handlerVars

\* inbound(datagram, rx_port)
CallInbound ==
  /\ InboundCount < MaxInbound
  /\ \E input \in LifecycleInputs :
       LET item == WorkItem(Len(enqueued) + 1, input[1], input[2])
       IN /\ queue' = Append(queue, item)
          /\ enqueued' = Append(enqueued, item)
  /\ UNCHANGED <<netVars, cycleVars, zit, tuple_lookup, thread, started_event, stopped_event, wpc, startPc,
                 stopPc, dispatched, sent>>
  /\ UNCHANGED handlerVars

\* _run of one worker: self.started_event.set()
WorkerSetStarted ==
  \E w \in 1..Len(workers) :
    /\ workers[w] = "start"
    /\ started_event' = TRUE
    /\ workers' = [workers EXCEPT ![w] = "get"]
    /\ UNCHANGED <<netVars, calls, zit, tuple_lookup, thread, queue, stopped_event, wpc, startPc, stopPc,
                   enqueued, dispatched, sent>>
    /\ UNCHANGED handlerVars

\* _run of one worker: one turn of the loop on a (datagram, rx_port) item
WorkerItem ==
  \E w \in 1..Len(workers) :
    /\ workers[w] = "get"
    /\ queue # <<>>
    /\ ~IsStopFlag(Head(queue))
    /\ LET item == Head(queue)
           result == Dispatch(zit, item.datagram[1], item.rx_port[1], tuple_lookup)
       IN /\ sent' = sent \o TagSent(item.id, result.sent)
          /\ workers' = [workers EXCEPT ![w] = AfterDispatch(result)]
    /\ queue' = Tail(queue)
    /\ dispatched' = Append(dispatched, Head(queue).id)
    /\ UNCHANGED <<netVars, calls, zit, tuple_lookup, thread, started_event, stopped_event, wpc, startPc,
                   stopPc, enqueued>>
    /\ UNCHANGED handlerVars

\* _run of one worker: one turn of the loop on the stop flag
WorkerBreak ==
  \E w \in 1..Len(workers) :
    /\ workers[w] = "get"
    /\ queue # <<>>
    /\ IsStopFlag(Head(queue))
    /\ queue' = Tail(queue)
    /\ workers' = [workers EXCEPT ![w] = AfterStopFlag]
    /\ UNCHANGED <<netVars, calls, zit, tuple_lookup, thread, started_event, stopped_event, wpc, startPc,
                   stopPc, enqueued, dispatched, sent>>
    /\ UNCHANGED handlerVars

\* _run of one worker: self.stopped_event.set()
WorkerSetStopped ==
  \E w \in 1..Len(workers) :
    /\ workers[w] = "exit"
    /\ stopped_event' = TRUE
    /\ workers' = [workers EXCEPT ![w] = "done"]
    /\ UNCHANGED <<netVars, calls, zit, tuple_lookup, thread, queue, started_event, wpc, startPc, stopPc,
                   enqueued, dispatched, sent>>
    /\ UNCHANGED handlerVars

NextLifecycle ==
  \/ CallStart
  \/ CallStartReturn
  \/ CallStop
  \/ CallStopReturn
  \/ CallInbound
  \/ WorkerSetStarted
  \/ WorkerItem
  \/ WorkerBreak
  \/ WorkerSetStopped

SpecLifecycle == InitLifecycle /\ [][NextLifecycle]_vars

\* C20: whatever start() and stop() calls are made on one instance, in
\* whatever order, no stop() has returned while a worker of the instance
\* was in its consuming loop, and at most one worker is in the consuming
\* loop at a time.
C20_StopOutlastsWorkers ==
  /\ \A c \in 1..Len(calls) :
       calls[c].op = "stop" /\ calls[c].pc = "returned" => calls[c].consuming = {}
  /\ Cardinality(Consuming) <= 1

====
